---- MODULE Spec2Model ----
(***************************************************************************)
(* Model of backend/server.js: the five interview endpoints, the Groq      *)
(* gateway helper and the round configuration table.  server.js holds two  *)
(* versions of the server one after the other (lines 1-481 and 482-974);   *)
(* `version` says which of them is serving.                                *)
(*                                                                         *)
(* JSON values are records [t, v]: t is the JavaScript type and v an       *)
(* integer.  A "str" value is a numeric string whose digits spell v, a     *)
(* "dec" value is a number held in tenths (68 is 6.8).                     *)
(***************************************************************************)
EXTENDS Integers, Sequences, FiniteSets, TLC

VARIABLES version, pc, req, reply, resp, groqCalls, sends, tempFile, leaked,
          other, client

vars ==
  <<version, pc, req, reply, resp, groqCalls, sends, tempFile, leaked, other, client>>

(***************************** bounds **************************************)
MaxShort == 2        \* every score list up to this length is an input
MaxScores == 21      \* longest score list (lists of one repeated score and a last one)
MaxRoundInput == 4   \* largest round ordinal a caller sends
MaxTextLen == 3      \* tokens in a model completion
MaxRounds == 3       \* round results in a final-report request
MaxLines == 6        \* lines in a completion that lists questions
MaxLeaked == 2       \* upload files left on disk before uploads stop

(***************************** JSON values *********************************)
Num(n) == [t |-> "num", v |-> n]
Str(n) == [t |-> "str", v |-> n]
Dec(n) == [t |-> "dec", v |-> n]
Undef == [t |-> "undefined", v |-> 0]
JNull == [t |-> "null", v |-> 0]

\* JavaScript truthiness, as used by the `!x` guards of the handlers.
Truthy(j) ==
  CASE j.t = "num" -> j.v # 0
    [] j.t = "dec" -> j.v # 0
    [] j.t = "str" -> TRUE
    [] OTHER -> FALSE

(***************************** round table *********************************)
ROUND_CONFIG ==
  [n \in 1..3 |->
     CASE n = 1 -> [name |-> "Foundation", difficulty |-> "easy", passThreshold |-> 6]
       [] n = 2 -> [name |-> "Application", difficulty |-> "medium", passThreshold |-> 7]
       [] n = 3 -> [name |-> "Strategy", difficulty |-> "hard", passThreshold |-> 8]]

\* ROUND_CONFIG[roundNumber]: property keys are strings, so 2 and "2" find
\* the same entry; anything else finds undefined.
HasRound(roundNumber) ==
  roundNumber.t \in {"num", "str"} /\ roundNumber.v \in DOMAIN ROUND_CONFIG

RoundOf(roundNumber) == ROUND_CONFIG[roundNumber.v]

\* roundNumber === 3
IsLastRound(roundNumber) == roundNumber = Num(3)

\* roundNumber + 1: addition on a number, concatenation on a string.
PlusOne(roundNumber) ==
  IF roundNumber.t = "str" THEN Str(10 * roundNumber.v + 1)
  ELSE Num(roundNumber.v + 1)

(***************************** number formatting ***************************)
RECURSIVE SumSeq(_)
SumSeq(s) == IF s = <<>> THEN 0 ELSE s[1] + SumSeq(Tail(s))

\* A quotient that lies halfway between two tenths is j/20 with j odd.  The
\* binary64 quotient is exact when j is a multiple of 5 (a multiple of 1/4),
\* and toFixed then takes the larger neighbour; otherwise the binary64
\* quotient lies just above or just below j/20 and toFixed follows it.
\* These are the j below 200 whose binary64 value is at or above j/20.
RoundsUpAtTie ==
  {j \in 1..199 : j % 10 = 5} \cup
  {1, 9, 11, 13, 21, 27, 31, 37, 47, 49, 57, 59, 67, 69, 77, 79, 83, 89, 93,
   99, 103, 109, 113, 119, 123, 129, 133, 139, 143, 149, 153, 159, 161, 163,
   171, 173, 181, 183, 191, 193}

\* parseFloat((sum / n).toFixed(1)) in tenths, for n > 0.
ToFixed1Truncating(sum, n) == (10 * sum) \div n
ToFixed1(sum, n) ==
  LET q == (10 * sum) \div n
      r == (10 * sum) % n
  IN  IF 2 * r < n THEN q
      ELSE IF 2 * r > n THEN q + 1
      ELSE IF (2 * q + 1) \in RoundsUpAtTie THEN q + 1 ELSE q

\* averageScore of the submit-round response: 0/0 is NaN, which toFixed
\* prints as "NaN", parseFloat reads back as NaN and JSON writes as null.
AverageScore(scores) ==
  IF Len(scores) = 0 THEN JNull
  ELSE Dec(ToFixed1(SumSeq(scores), Len(scores)))

\* avgScore >= round.passThreshold on the unrounded quotient; NaN >= x is false.
AvgAtLeast(scores, threshold) ==
  Len(scores) > 0 /\ SumSeq(scores) >= threshold * Len(scores)

(***************************** requests and responses **********************)
\* A request body.  resumeData, question, answer, questions and answers only
\* flow into the prompt text, so the model keeps whether each is present.
\* file describes the uploaded document of /analyze-resume.
NoFile == [uploaded |-> FALSE, readable |-> FALSE, extractable |-> FALSE, text |-> "none"]

BaseReq ==
  [op |-> "none", file |-> NoFile, resumeData |-> TRUE, roundNumber |-> Undef,
   question |-> TRUE, answer |-> TRUE, questions |-> TRUE, answers |-> TRUE,
   hasScores |-> TRUE, scores |-> <<>>, hasRounds |-> TRUE, allRoundsData |-> <<>>]

NoBody == [kind |-> "none"]
NoResp == [status |-> 0, error |-> "", detail |-> "", body |-> NoBody]

Ok(body) == [status |-> 200, error |-> "", detail |-> "", body |-> body]
BadRequest(msg) == [status |-> 400, error |-> msg, detail |-> "", body |-> NoBody]
ServerError(msg) == [status |-> 500, error |-> msg, detail |-> "", body |-> NoBody]

FailedText(op) ==
  CASE op = "analyze" -> "Failed to analyze resume"
    [] op = "generate" -> "Failed to generate questions"
    [] op = "evaluate" -> "Failed to evaluate answer"
    [] op = "submit" -> "Failed to submit round"
    [] op = "final" -> "Failed to generate final report"

CouldNotParseText(op) ==
  CASE op = "analyze" -> "Could not parse resume analysis"
    [] op = "evaluate" -> "Could not parse evaluation"
    [] op = "final" -> "Could not parse final report"

\* The catch block of a handler: the first version answers with the fixed
\* text, the second appends err.message.
Catch(ver, op, message) ==
  [status |-> 500, error |-> FailedText(op),
   detail |-> IF ver = 2 THEN message ELSE "", body |-> NoBody]

TypeErrorMsg == "Cannot read properties of undefined"
SyntaxErrorMsg == "Unexpected token in JSON"
TransportMsg == "request to api.groq.com failed"
ReadErrorMsg == "ENOENT: no such file or directory"
PdfErrorMsg == "Invalid PDF structure"

(***************************** Groq gateway ********************************)
\* What the remote service does with one call: the fetch rejects, or it
\* answers with a status and a body that holds a completion choice or not.
GatewayFailures == {"reject", "notOk", "noChoice"}
NoContent == [kind |-> "none"]
NoReply == [outcome |-> "none", content |-> NoContent]

\* The replies the gateway can give when a completion would be one of contents.
Replies(contents) ==
  {[outcome |-> o, content |-> NoContent] : o \in GatewayFailures}
  \cup {[outcome |-> "content", content |-> c] : c \in contents}

\* callGroq: whether it threw, and the message of the error it threw.
CallGroq(ver, outcome) ==
  CASE outcome = "reject" -> [threw |-> TRUE, message |-> TransportMsg]
    [] outcome = "notOk" ->
         IF ver = 2 THEN [threw |-> TRUE, message |-> "Groq API error"]
         ELSE [threw |-> TRUE, message |-> "Groq API returned no response"]
    [] outcome = "noChoice" ->
         IF ver = 2 THEN [threw |-> TRUE, message |-> "Groq API returned no choices"]
         ELSE [threw |-> TRUE, message |-> "Groq API returned no response"]
    [] OTHER -> [threw |-> FALSE, message |-> ""]

(***************************** object extraction ***************************)
\* A completion is a sequence of tokens: "w" is a word of prose, "{" and "}"
\* are braces.  The members of the object the braces enclose are carried
\* beside the text (obj); a span parses when it is one brace pair with
\* nothing foreign inside.
Tokens == {"w", "{", "}"}
Texts == UNION {[1..n -> Tokens] : n \in 0..MaxTextLen}

FirstOpen(text) ==
  IF \E i \in 1..Len(text) : text[i] = "{"
  THEN CHOOSE i \in 1..Len(text) : text[i] = "{" /\ \A k \in 1..(i - 1) : text[k] # "{"
  ELSE 0

LastClose(text) ==
  IF \E i \in 1..Len(text) : text[i] = "}"
  THEN CHOOSE i \in 1..Len(text) : text[i] = "}" /\ \A k \in (i + 1)..Len(text) : text[k] # "}"
  ELSE 0

\* JSON.parse(raw) with no span taken out of the completion first.
JsonMatchWholeText(text) == text

\* raw.match(/\{[\s\S]*\}/): the span from the first "{" to the last "}",
\* <<>> when there is none.
JsonMatch(text) ==
  IF FirstOpen(text) # 0 /\ LastClose(text) > FirstOpen(text)
  THEN SubSeq(text, FirstOpen(text), LastClose(text))
  ELSE <<>>

\* JSON.parse succeeds on the span.
JsonParses(span) == span = <<"{", "}">>

ParsingTexts == {t \in Texts : JsonParses(JsonMatch(t))}
NoObj == [kind |-> "none"]

\* Completions that carry one of objs between their braces when they parse.
ObjectContents(objs) ==
  {[kind |-> "text", text |-> t, obj |-> NoObj] : t \in Texts \ ParsingTexts}
  \cup {[kind |-> "text", text |-> t, obj |-> o] : t \in ParsingTexts, o \in objs}

\* The part of the three handlers that read an object from the completion:
\* the gateway error, the missing span and the span that does not parse each
\* end the request; NoResp says the object was read.
ReadObject(ver, op, rep) ==
  LET g == CallGroq(ver, rep.outcome)
  IN  IF g.threw THEN Catch(ver, op, g.message)
      ELSE IF JsonMatch(rep.content.text) = <<>> THEN ServerError(CouldNotParseText(op))
      ELSE IF ~JsonParses(JsonMatch(rep.content.text)) THEN Catch(ver, op, SyntaxErrorMsg)
      ELSE NoResp

(***************************** POST /analyze-resume ************************)
\* Up to `await pdfParse`: NoResp when the handler goes on to the extraction.
AnalyzeBeforeParse(ver, r) ==
  IF ~r.file.uploaded THEN BadRequest("No resume uploaded")
  ELSE IF ~r.file.readable THEN Catch(ver, "analyze", ReadErrorMsg)
  ELSE NoResp

\* From the settled extraction to `await callGroq`: a failed extraction is
\* answered by the catch block; otherwise the temp file is unlinked and the
\* gateway is called with pdfData.text.substring(0, 3000), whatever r.file.text
\* holds.
AnalyzeAfterParse(ver, r) ==
  IF ~r.file.extractable THEN Catch(ver, "analyze", PdfErrorMsg) ELSE NoResp

\* fs.unlinkSync(req.file.path) runs only after the extraction succeeded.
UnlinkReached(r) == r.file.extractable

AnalyzeAfterCall(ver, r, rep) ==
  LET read == ReadObject(ver, "analyze", rep)
  IN  IF read # NoResp THEN read
      ELSE Ok([kind |-> "analysis", analysis |-> rep.content.obj])

(***************************** POST /generate-questions ********************)
QuestionLimit == 5
MinQuestionLength == 10

GenerateBeforeCall(ver, r) ==
  IF ~r.resumeData \/ ~Truthy(r.roundNumber)
  THEN BadRequest("Missing resumeData or roundNumber")
  ELSE IF ~HasRound(r.roundNumber) THEN BadRequest("Invalid roundNumber. Use 1, 2, or 3")
  ELSE NoResp

\* A line of the completion: the blanks before its first character
\* (indent), whether an enumerator ("3." or "3)") comes next, and the length
\* of the text after the enumerator and its blanks, trailing blanks apart.
\* An enumerator left in place counts with the one blank after it.
EnumeratorWidth == 3

\* line.replace(/^\d+[\.\)]\s*/, "").trim(): the pattern is anchored at the
\* first character, so it removes the enumerator of a line that starts with
\* it and leaves the enumerator of an indented line to the trim, which
\* removes the blanks only.
StripLine(line) ==
  IF line.enumerated /\ line.indent > 0
  THEN [length |-> EnumeratorWidth + line.length, enumerator |-> TRUE]
  ELSE [length |-> line.length, enumerator |-> FALSE]

\* The parsed list keeps, in order, the lines whose stripped text is longer
\* than 10, and then the first 5 of them.
RECURSIVE KeptLines(_, _)
KeptLines(lines, i) ==
  IF i > Len(lines) THEN <<>>
  ELSE IF StripLine(lines[i]).length > MinQuestionLength
       THEN <<[line |-> i, length |-> StripLine(lines[i]).length,
               enumerator |-> StripLine(lines[i]).enumerator]>>
            \o KeptLines(lines, i + 1)
       ELSE KeptLines(lines, i + 1)

\* questions.slice(-5)
LastN(s, n) == SubSeq(s, IF Len(s) < n THEN 1 ELSE Len(s) - n + 1, Len(s))

FirstN(s, n) == SubSeq(s, 1, IF Len(s) < n THEN Len(s) ELSE n)

GenerateBody(r, lines) ==
  LET round == RoundOf(r.roundNumber)
  IN  [kind |-> "questions",
       roundNumber |-> r.roundNumber,
       roundInfo |-> [name |-> round.name, difficulty |-> round.difficulty,
                      passThreshold |-> round.passThreshold],
       questions |-> FirstN(KeptLines(lines, 1), QuestionLimit)]

GenerateAfterCall(ver, r, rep) ==
  LET g == CallGroq(ver, rep.outcome)
  IN  IF g.threw THEN Catch(ver, "generate", g.message)
      ELSE Ok(GenerateBody(r, rep.content.lines))

(***************************** POST /evaluate-answer ***********************)
EvaluateFieldsPresent(r) ==
  r.question /\ r.answer /\ r.resumeData /\ Truthy(r.roundNumber)

\* The second version turns an unknown round down; the first goes on to
\* build the prompt, where round.name throws.
EvaluateBeforeCall(ver, r) ==
  IF ~EvaluateFieldsPresent(r) THEN BadRequest("Missing required fields")
  ELSE IF ~HasRound(r.roundNumber)
       THEN IF ver = 2 THEN BadRequest("Invalid roundNumber")
            ELSE Catch(ver, "evaluate", TypeErrorMsg)
  ELSE NoResp

\* "Ensure arrays" (second version only): a string becomes a list of that
\* string, anything else that is no list becomes the empty list.
EnsureArray(ver, value) ==
  IF ver = 1 THEN value
  ELSE CASE value = "list" -> "list"
         [] value = "string" -> "listOfTheString"
         [] OTHER -> "emptyList"

\* evaluation.score >= round.passThreshold; undefined >= n is false.
ScorePassesStrictly(score, threshold) == score.t = "num" /\ score.v > threshold
ScorePasses(score, threshold) == score.t = "num" /\ score.v >= threshold

\* { ...evaluation, roundThreshold, passedThisQuestion }: the two derived
\* fields come after the spread and replace what the object held.
EvaluateBody(ver, r, obj) ==
  LET round == RoundOf(r.roundNumber)
  IN  [kind |-> "evaluation",
       score |-> obj.score,
       strengths |-> EnsureArray(ver, obj.strengths),
       weaknesses |-> EnsureArray(ver, obj.weaknesses),
       roundThreshold |-> Num(round.passThreshold),
       passedThisQuestion |-> ScorePasses(obj.score, round.passThreshold)]

EvaluateAfterCall(ver, r, rep) ==
  LET read == ReadObject(ver, "evaluate", rep)
  IN  IF read # NoResp THEN read ELSE Ok(EvaluateBody(ver, r, rep.content.obj))

(***************************** POST /final-report **************************)
FinalFieldsPresent(r) == r.resumeData /\ r.hasRounds

\* allRoundsData.filter((r) => r.roundPassed).length
RECURSIVE RoundsPassed(_)
RoundsPassed(rounds) ==
  IF rounds = <<>> THEN 0
  ELSE (IF rounds[1].roundPassed THEN 1 ELSE 0) + RoundsPassed(Tail(rounds))

\* roundsPassed === allRoundsData.length
AllPassed(rounds) == RoundsPassed(rounds) = Len(rounds)

\* { ...report, candidateName, roleAssessed, fieldAssessed, allPassed }:
\* overallScore and roundsPassed are the ones the completion holds.
ReportAllPassedSpreadLast(obj, rounds) ==
  IF obj.allPassed = "absent" THEN AllPassed(rounds) ELSE obj.allPassed = "true"
ReportAllPassed(obj, rounds) == AllPassed(rounds)

FinalBody(r, obj) ==
  [kind |-> "report",
   overallScore |-> obj.overallScore,
   roundsPassed |-> obj.roundsPassed,
   allPassed |-> ReportAllPassed(obj, r.allRoundsData)]

FinalBeforeCall(ver, r) ==
  IF ~FinalFieldsPresent(r) THEN BadRequest("Missing required fields") ELSE NoResp

FinalAfterCall(ver, r, rep) ==
  LET read == ReadObject(ver, "final", rep)
  IN  IF read # NoResp THEN read ELSE Ok(FinalBody(r, rep.content.obj))

(***************************** POST /submit-round **************************)
SubmitFieldsPresent(r) ==
  r.resumeData /\ Truthy(r.roundNumber) /\ r.questions /\ r.answers /\ r.hasScores

RoundPassed(r) == AvgAtLeast(r.scores, RoundOf(r.roundNumber).passThreshold)

\* The response object of a round whose gateway call returned feedback.
SubmitBody(r, feedback) ==
  LET round == RoundOf(r.roundNumber)
      roundPassed == RoundPassed(r)
      isLastRound == IsLastRound(r.roundNumber)
  IN  [kind |-> "round",
       roundNumber |-> r.roundNumber,
       roundName |-> round.name,
       averageScore |-> AverageScore(r.scores),
       passThreshold |-> round.passThreshold,
       roundPassed |-> roundPassed,
       canProceed |-> roundPassed /\ ~isLastRound,
       nextRound |-> IF roundPassed /\ ~isLastRound THEN PlusOne(r.roundNumber) ELSE JNull,
       isLastRound |-> isLastRound,
       feedback |-> feedback,
       scoreBreakdown |->
         [i \in 1..Len(r.scores) |->
            [question |-> i, score |-> r.scores[i],
             passed |-> r.scores[i] >= round.passThreshold]]]

\* The handler up to `await callGroq`: the response it sends without calling
\* the gateway, or NoResp when it goes on to the call.  An unknown round
\* makes round.passThreshold throw, which the catch block answers.
SubmitBeforeCall(ver, r) ==
  IF ~SubmitFieldsPresent(r) THEN BadRequest("Missing required fields")
  ELSE IF ~HasRound(r.roundNumber) THEN Catch(ver, "submit", TypeErrorMsg)
  ELSE NoResp

\* The handler from the settled gateway call to its response.
SubmitAfterCall(ver, r, rep) ==
  LET g == CallGroq(ver, rep.outcome)
  IN  IF g.threw THEN Catch(ver, "submit", g.message) ELSE Ok(SubmitBody(r, rep.content.text))

(***************************** inputs **************************************)
ScoreRange == 0..10

RoundInputs ==
  {Undef} \cup {Num(n) : n \in 0..MaxRoundInput} \cup {Str(n) : n \in DOMAIN ROUND_CONFIG}

\* A document that cannot be read cannot be extracted from either; text is
\* pdfData.text of a settled extraction, the empty string or some text.
Files ==
  {NoFile,
   [uploaded |-> TRUE, readable |-> FALSE, extractable |-> FALSE, text |-> "none"],
   [uploaded |-> TRUE, readable |-> TRUE, extractable |-> FALSE, text |-> "none"],
   [uploaded |-> TRUE, readable |-> TRUE, extractable |-> TRUE, text |-> "empty"],
   [uploaded |-> TRUE, readable |-> TRUE, extractable |-> TRUE, text |-> "some"]}

AnalyzeRequests == {[BaseReq EXCEPT !.op = "analyze", !.file = f] : f \in Files}

AnalyzeObjects == {[kind |-> "profile", complete |-> c] : c \in BOOLEAN}

GenerateRequests ==
  {[BaseReq EXCEPT !.op = "generate", !.roundNumber = rn] : rn \in RoundInputs}
  \cup {[BaseReq EXCEPT !.op = "generate", !.roundNumber = Num(1), !.resumeData = FALSE]}

LineKinds ==
  {[indent |-> 0, enumerated |-> TRUE, length |-> n] :
     n \in (MinQuestionLength - 1)..(MinQuestionLength + 1)}
  \cup {[indent |-> 0, enumerated |-> FALSE, length |-> MinQuestionLength + 1],
        [indent |-> 1, enumerated |-> TRUE, length |-> MinQuestionLength - 1]}

GenerateContents ==
  {[kind |-> "lines", lines |-> l] : l \in UNION {[1..n -> LineKinds] : n \in 0..MaxLines}}

EvaluateRequests ==
  {[BaseReq EXCEPT !.op = "evaluate", !.roundNumber = rn] : rn \in RoundInputs}
  \cup
  {[BaseReq EXCEPT !.op = "evaluate", !.roundNumber = Num(1), !.question = f[1],
                   !.answer = f[2], !.resumeData = f[3]] :
     f \in {<<FALSE, TRUE, TRUE>>, <<TRUE, FALSE, TRUE>>, <<TRUE, TRUE, FALSE>>}}

ValueKinds == {"list", "string", "missing", "number"}

\* The object of an evaluation completion: the fields the prompt asks for,
\* and a passedThisQuestion or roundThreshold of the model's own making.
EvaluateObjects ==
  [kind : {"evaluation"},
   score : {Undef} \cup {Num(n) : n \in ScoreRange},
   strengths : ValueKinds,
   weaknesses : ValueKinds,
   passedThisQuestion : {"absent", "true", "false"},
   roundThreshold : {Undef, Num(0)}]

ShortLists == UNION {[1..n -> ScoreRange] : n \in 0..MaxShort}
RunLists ==
  {[i \in 1..n |-> IF i < n THEN a ELSE b] : a \in ScoreRange, b \in ScoreRange, n \in 1..MaxScores}
ExampleLists == {<<6, 7, 8, 7, 6>>, <<7, 8, 7, 9, 7>>}
ScoreLists == ShortLists \cup RunLists \cup ExampleLists

SubmitRequests ==
  {[BaseReq EXCEPT !.op = "submit", !.roundNumber = rn, !.scores = s] :
     rn \in RoundInputs, s \in ScoreLists}
  \cup
  {[BaseReq EXCEPT !.op = "submit", !.roundNumber = Num(1), !.resumeData = f[1],
                   !.questions = f[2], !.answers = f[3], !.hasScores = f[4]] :
     f \in {<<FALSE, TRUE, TRUE, TRUE>>, <<TRUE, FALSE, TRUE, TRUE>>,
            <<TRUE, TRUE, FALSE, TRUE>>, <<TRUE, TRUE, TRUE, FALSE>>}}

\* The round summary is free text, returned trimmed.
SubmitContents == {[kind |-> "text", text |-> t, obj |-> NoObj] : t \in {<<>>, <<"w">>}}

RoundResults == [roundPassed : BOOLEAN, averageScore : {Dec(70), Dec(80), Dec(90)}]

FinalRequests ==
  {[BaseReq EXCEPT !.op = "final", !.allRoundsData = l] :
     l \in UNION {[1..n -> RoundResults] : n \in 0..MaxRounds}}
  \cup {[BaseReq EXCEPT !.op = "final", !.resumeData = FALSE],
        [BaseReq EXCEPT !.op = "final", !.hasRounds = FALSE]}

\* The object of a report completion: the numbers the prompt injected, as
\* the model wrote them back, and an allPassed of the model's own making.
FinalObjects ==
  [kind : {"report"},
   overallScore : {Undef, Dec(50), Dec(80)},
   roundsPassed : {Undef} \cup {Num(n) : n \in 0..MaxRounds},
   allPassed : {"absent", "true", "false"}]

\* What the gateway call of each route can come back with.
AnalyzeReplies == Replies(ObjectContents(AnalyzeObjects))
GenerateReplies == Replies(GenerateContents)
EvaluateReplies == Replies(ObjectContents(EvaluateObjects))
SubmitReplies == Replies(SubmitContents)
FinalReplies == Replies(ObjectContents(FinalObjects))

(***************************** actions *************************************)
\* sends counts the responses the handler has sent for the request in
\* flight (res.json and res.status(...).json calls).

\* A second request in flight beside the first: /submit-round, with its own
\* handler locals.
NoOther ==
  [pc |-> "idle", req |-> BaseReq, resp |-> NoResp, groqCalls |-> 0, sends |-> 0]

\* The caller of the interview: the round it is at and the rounds it has
\* been at, in order.
StartAt(roundNumber) == [round |-> roundNumber, visited |-> <<roundNumber>>]

Init ==
  /\ version \in {1, 2}
  /\ pc = "idle"
  /\ req = BaseReq
  /\ reply = NoReply
  /\ resp = NoResp
  /\ groqCalls = 0
  /\ sends = 0
  /\ tempFile = FALSE
  /\ leaked = 0
  /\ other = NoOther
  /\ client = StartAt(Num(1))

\* A handler whose early exit is a bare `return`: the request ends with no
\* response sent.
BeginEndsSilently(r, early) ==
  /\ req' = r
  /\ resp' = early
  /\ pc' = IF early = NoResp THEN "groq" ELSE "sent"
  /\ groqCalls' = IF early = NoResp THEN 1 ELSE 0
  /\ sends' = 0
  /\ UNCHANGED <<version, reply, tempFile, leaked, other, client>>

\* A request arrives and its handler runs from its first line to its first
\* await on the gateway, or to the response it sends before that.
Begin(r, early) ==
  /\ req' = r
  /\ resp' = early
  /\ pc' = IF early = NoResp THEN "groq" ELSE "sent"
  /\ groqCalls' = IF early = NoResp THEN 1 ELSE 0
  /\ sends' = IF early = NoResp THEN 0 ELSE 1
  /\ UNCHANGED <<version, reply, tempFile, leaked, other, client>>

\* A handler that calls the gateway a second time when the first call fails.
FinishRetrying(rep, late) ==
  IF rep.outcome \in GatewayFailures /\ groqCalls < 2
  THEN /\ groqCalls' = groqCalls + 1
       /\ UNCHANGED <<version, pc, req, reply, resp, sends, tempFile, leaked, other, client>>
  ELSE /\ reply' = rep
       /\ resp' = late
       /\ pc' = "sent"
       /\ sends' = sends + 1
       /\ UNCHANGED <<version, req, groqCalls, tempFile, leaked, other, client>>

\* The gateway call settles and the handler runs to its response.
Finish(rep, late) ==
  /\ reply' = rep
  /\ resp' = late
  /\ pc' = "sent"
  /\ sends' = sends + 1
  /\ UNCHANGED <<version, req, groqCalls, tempFile, leaked, other, client>>

\* multer has stored the upload (if any) before the handler starts; the
\* handler runs to `await pdfParse`, or answers before it.
AnalyzeResume ==
  /\ pc = "idle"
  /\ \E r \in AnalyzeRequests :
       /\ r.file.uploaded => leaked < MaxLeaked
       /\ req' = r
       /\ tempFile' = r.file.uploaded
       /\ resp' = AnalyzeBeforeParse(version, r)
       /\ pc' = IF AnalyzeBeforeParse(version, r) = NoResp THEN "pdf" ELSE "sent"
       /\ sends' = IF AnalyzeBeforeParse(version, r) = NoResp THEN 0 ELSE 1
  /\ UNCHANGED <<version, reply, groqCalls, leaked, other, client>>

\* The extraction settles: the handler answers its failure, or unlinks the
\* temp file and calls the gateway.
AnalyzeExtracted ==
  /\ pc = "pdf"
  /\ resp' = AnalyzeAfterParse(version, req)
  /\ tempFile' = IF UnlinkReached(req) THEN FALSE ELSE tempFile
  /\ pc' = IF AnalyzeAfterParse(version, req) = NoResp THEN "groq" ELSE "sent"
  /\ groqCalls' = IF AnalyzeAfterParse(version, req) = NoResp THEN 1 ELSE 0
  /\ sends' = IF AnalyzeAfterParse(version, req) = NoResp THEN 0 ELSE 1
  /\ UNCHANGED <<version, req, reply, leaked, other, client>>

AnalyzeCompleted ==
  /\ pc = "groq"
  /\ req.op = "analyze"
  /\ \E rep \in AnalyzeReplies :
       Finish(rep, AnalyzeAfterCall(version, req, rep))

GenerateQuestions ==
  /\ pc = "idle"
  /\ \E r \in GenerateRequests : Begin(r, GenerateBeforeCall(version, r))

GenerateCompleted ==
  /\ pc = "groq"
  /\ req.op = "generate"
  /\ \E rep \in GenerateReplies :
       Finish(rep, GenerateAfterCall(version, req, rep))

EvaluateAnswer ==
  /\ pc = "idle"
  /\ \E r \in EvaluateRequests : Begin(r, EvaluateBeforeCall(version, r))

EvaluateCompleted ==
  /\ pc = "groq"
  /\ req.op = "evaluate"
  /\ \E rep \in EvaluateReplies :
       Finish(rep, EvaluateAfterCall(version, req, rep))

SubmitRound ==
  /\ pc = "idle"
  /\ \E r \in SubmitRequests : Begin(r, SubmitBeforeCall(version, r))

SubmitCompleted ==
  /\ pc = "groq"
  /\ req.op = "submit"
  /\ \E rep \in SubmitReplies :
       Finish(rep, SubmitAfterCall(version, req, rep))

FinalReport ==
  /\ pc = "idle"
  /\ \E r \in FinalRequests : Begin(r, FinalBeforeCall(version, r))

FinalCompleted ==
  /\ pc = "groq"
  /\ req.op = "final"
  /\ \E rep \in FinalReplies :
       Finish(rep, FinalAfterCall(version, req, rep))

\* The response has gone out; the server keeps nothing of the request, the
\* uploads folder keeps the temp file if the handler did not unlink it.
Release ==
  /\ pc = "sent"
  /\ pc' = "idle"
  /\ req' = BaseReq
  /\ reply' = NoReply
  /\ resp' = NoResp
  /\ groqCalls' = 0
  /\ sends' = 0
  /\ tempFile' = FALSE
  /\ leaked' = IF tempFile THEN leaked + 1 ELSE leaked
  /\ UNCHANGED version

Done == Release /\ UNCHANGED <<other, client>>

NextAnalyze == AnalyzeResume \/ AnalyzeExtracted \/ AnalyzeCompleted \/ Done
NextGenerate == GenerateQuestions \/ GenerateCompleted \/ Done
NextEvaluate == EvaluateAnswer \/ EvaluateCompleted \/ Done
NextSubmit == SubmitRound \/ SubmitCompleted \/ Done
NextFinal == FinalReport \/ FinalCompleted \/ Done

Next ==
  \/ AnalyzeResume \/ AnalyzeExtracted \/ AnalyzeCompleted
  \/ GenerateQuestions \/ GenerateCompleted
  \/ EvaluateAnswer \/ EvaluateCompleted
  \/ SubmitRound \/ SubmitCompleted
  \/ FinalReport \/ FinalCompleted
  \/ Done

Spec == Init /\ [][Next]_vars
SpecAnalyze == Init /\ [][NextAnalyze]_vars
SpecGenerate == Init /\ [][NextGenerate]_vars
SpecEvaluate == Init /\ [][NextEvaluate]_vars
SpecSubmit == Init /\ [][NextSubmit]_vars
SpecFinal == Init /\ [][NextFinal]_vars

(***************************** the five routes together ********************)
\* What a handler does next depends on which fields are present, on the
\* round and on how the gateway call ends, not on how long a list is: the
\* routes are run together over the requests and completions with at most
\* one score, one round result and one line, and with a second request in
\* flight.
BriefSubmitRequests == {r \in SubmitRequests : Len(r.scores) <= 1}
BriefFinalRequests == {r \in FinalRequests : Len(r.allRoundsData) <= 1}
BriefGenerateContents == {c \in GenerateContents : Len(c.lines) <= 1}
BriefEvaluateObjects ==
  {o \in EvaluateObjects :
     /\ o.score \in {Undef, Num(7)}
     /\ o.strengths = o.weaknesses
     /\ o.passedThisQuestion = "absent"
     /\ o.roundThreshold = Undef}
BriefFinalObjects ==
  {o \in FinalObjects : o.overallScore = Undef /\ o.roundsPassed = Undef}
OtherRequests ==
  {r \in BriefSubmitRequests :
     /\ SubmitFieldsPresent(r)
     /\ r.scores = <<7>>
     /\ r.roundNumber \in {Num(1), Num(MaxRoundInput)}}

BriefGenerateReplies == Replies(BriefGenerateContents)
BriefEvaluateReplies == Replies(ObjectContents(BriefEvaluateObjects))
BriefFinalReplies == Replies(ObjectContents(BriefFinalObjects))

GenerateCompletedBrief ==
  /\ pc = "groq"
  /\ req.op = "generate"
  /\ \E rep \in BriefGenerateReplies :
       Finish(rep, GenerateAfterCall(version, req, rep))

EvaluateCompletedBrief ==
  /\ pc = "groq"
  /\ req.op = "evaluate"
  /\ \E rep \in BriefEvaluateReplies :
       Finish(rep, EvaluateAfterCall(version, req, rep))

SubmitRoundBrief ==
  /\ pc = "idle"
  /\ \E r \in BriefSubmitRequests : Begin(r, SubmitBeforeCall(version, r))

FinalReportBrief ==
  /\ pc = "idle"
  /\ \E r \in BriefFinalRequests : Begin(r, FinalBeforeCall(version, r))

FinalCompletedBrief ==
  /\ pc = "groq"
  /\ req.op = "final"
  /\ \E rep \in BriefFinalReplies :
       Finish(rep, FinalAfterCall(version, req, rep))

\* The handler of the second request touches its own locals only.
first == <<version, pc, req, reply, resp, groqCalls, sends, tempFile, leaked, client>>

OtherSubmit ==
  /\ other.pc = "idle"
  /\ \E r \in OtherRequests :
       LET early == SubmitBeforeCall(version, r)
       IN  other' = [pc |-> IF early = NoResp THEN "groq" ELSE "sent",
                     req |-> r,
                     resp |-> early,
                     groqCalls |-> IF early = NoResp THEN 1 ELSE 0,
                     sends |-> IF early = NoResp THEN 0 ELSE 1]
  /\ UNCHANGED first

OtherCompleted ==
  /\ other.pc = "groq"
  /\ \E rep \in SubmitReplies :
       other' = [other EXCEPT !.pc = "sent",
                              !.resp = SubmitAfterCall(version, other.req, rep),
                              !.sends = @ + 1]
  /\ UNCHANGED first

OtherDone ==
  /\ other.pc = "sent"
  /\ other' = NoOther
  /\ UNCHANGED first

NextRoutes ==
  \/ AnalyzeResume \/ AnalyzeExtracted \/ AnalyzeCompleted
  \/ GenerateQuestions \/ GenerateCompletedBrief
  \/ EvaluateAnswer \/ EvaluateCompletedBrief
  \/ SubmitRoundBrief \/ SubmitCompleted
  \/ FinalReportBrief \/ FinalCompletedBrief
  \/ Done
  \/ OtherSubmit \/ OtherCompleted \/ OtherDone

SpecRoutes == Init /\ [][NextRoutes]_vars

\* A gateway call and a text extraction settle (they resolve or fail), and
\* the event loop then runs the handler that awaits them.
Settled ==
  \/ AnalyzeExtracted \/ AnalyzeCompleted
  \/ GenerateCompletedBrief
  \/ EvaluateCompletedBrief
  \/ SubmitCompleted
  \/ FinalCompletedBrief

FairRoutes ==
  /\ SpecRoutes
  /\ WF_vars(Settled)
  /\ WF_vars(OtherCompleted)

(***************************** a caller going through the rounds ***********)
\* The caller starts at round 1, which it sends as the number 1 or as the
\* string "1"; it submits the round it is at, with any scores, and moves on
\* only when the response says canProceed, to the response's nextRound.
InitClient ==
  /\ version \in {1, 2}
  /\ pc = "idle"
  /\ req = BaseReq
  /\ reply = NoReply
  /\ resp = NoResp
  /\ groqCalls = 0
  /\ sends = 0
  /\ tempFile = FALSE
  /\ leaked = 0
  /\ other = NoOther
  /\ client \in {StartAt(Num(1)), StartAt(Str(1))}

ClientSubmit ==
  /\ pc = "idle"
  /\ \E s \in ScoreLists :
       LET r == [BaseReq EXCEPT !.op = "submit", !.roundNumber = client.round,
                                !.scores = s]
       IN  Begin(r, SubmitBeforeCall(version, r))

ClientProceed ==
  /\ Release
  /\ client' = IF resp.status = 200 /\ resp.body.canProceed
                THEN [round |-> resp.body.nextRound,
                      visited |-> Append(client.visited, resp.body.nextRound)]
                ELSE client
  /\ UNCHANGED other

NextClient == ClientSubmit \/ SubmitCompleted \/ ClientProceed

SpecClient == InitClient /\ [][NextClient]_vars

(***************************** /submit-round properties ********************)
Answered(op) == pc = "sent" /\ req.op = op
Succeeded(op) == Answered(op) /\ resp.status = 200

\* C1: a round submitted with every field present, a configured round and an
\* empty score list is turned down as bad input, with no gateway call made
\* and no response that carries a null average.
C1_EmptyScoresRejected ==
  (req.op = "submit" /\ SubmitFieldsPresent(req) /\ HasRound(req.roundNumber)
     /\ req.scores = <<>>)
  => /\ groqCalls = 0
     /\ pc = "sent"
     /\ resp.status = 400

\* C2: in a successful response to a non-empty score list, roundPassed holds
\* exactly when the averageScore of that response is at least its
\* passThreshold.
C2_PassedIffReportedAverage ==
  (Succeeded("submit") /\ req.scores # <<>>)
  => (resp.body.roundPassed <=> resp.body.averageScore.v >= 10 * resp.body.passThreshold)

\* C3: the averageScore of a successful response is the mean of the scores
\* rounded to one decimal: a tenth nearest to sum / count; [6,7,8,7,6] gives
\* 6.8 and [7,8,7,9,7] gives 7.6.
C3_AverageIsRoundedMean ==
  (Succeeded("submit") /\ req.scores # <<>>)
  => LET a == resp.body.averageScore
         s == SumSeq(req.scores)
         n == Len(req.scores)
     IN  /\ a.t = "dec"
         /\ 2 * (a.v * n - 10 * s) <= n
         /\ 2 * (10 * s - a.v * n) <= n
         /\ (req.scores = <<6, 7, 8, 7, 6>> => a.v = 68)
         /\ (req.scores = <<7, 8, 7, 9, 7>> => a.v = 76)

C3_Witness ==
  /\ Succeeded("submit")
  /\ req.scores = <<6, 7, 8, 7, 6>>
  /\ resp.body.averageScore = Dec(68)

\* C4: in a successful response canProceed holds exactly when the round was
\* passed and is not round 3, nextRound is set exactly when canProceed holds,
\* and then it is the submitted round plus one.
C4_ProceedIffPassedAndNotLast ==
  Succeeded("submit")
  => /\ resp.body.canProceed <=> (resp.body.roundPassed /\ req.roundNumber.v # 3)
     /\ resp.body.nextRound # JNull <=> resp.body.canProceed
     /\ resp.body.canProceed => resp.body.nextRound = Num(req.roundNumber.v + 1)

(***************************** /evaluate-answer properties *****************)
\* C5: in a successful evaluation whose score is one of 0..10,
\* passedThisQuestion holds exactly when the score is at least the threshold
\* of the requested round (6, 7, 8 for rounds 1, 2, 3), and roundThreshold is
\* that threshold.
C5_PassedIffScoreAtLeastThreshold ==
  (Succeeded("evaluate") /\ resp.body.score.t = "num")
  => LET threshold == CASE req.roundNumber.v = 1 -> 6
                        [] req.roundNumber.v = 2 -> 7
                        [] req.roundNumber.v = 3 -> 8
     IN  /\ resp.body.passedThisQuestion <=> resp.body.score.v >= threshold
         /\ resp.body.roundThreshold = Num(threshold)

C5_Witness ==
  /\ Succeeded("evaluate")
  /\ req.roundNumber = Num(2)
  /\ reply.content.obj.score = Num(7)
  /\ reply.content.obj.passedThisQuestion = "false"
  /\ resp.body.passedThisQuestion

(***************************** round lookup ********************************)
\* C6: a generate, evaluate or submit request whose round is not one of the
\* configured rounds is answered as bad input, with no gateway call made.
C6_UnknownRoundIsBadInput ==
  (pc # "idle" /\ req.op \in {"generate", "evaluate", "submit"}
     /\ ~HasRound(req.roundNumber))
  => /\ groqCalls = 0
     /\ pc = "sent"
     /\ resp.status = 400

(***************************** /analyze-resume properties ******************)
\* C7: when the response to an analyze request that came with an upload is
\* sent, the uploaded temp file is gone.
C7_TempFileReleased ==
  (pc = "sent" /\ req.op = "analyze" /\ req.file.uploaded) => ~tempFile

(***************************** /final-report properties ********************)
\* C8: in a successful report allPassed holds exactly when every submitted
\* round result has roundPassed, whatever the completion's object holds.
C8_AllPassedIffEveryRoundPassed ==
  Succeeded("final")
  => (resp.body.allPassed
        <=> \A i \in 1..Len(req.allRoundsData) : req.allRoundsData[i].roundPassed)

C8_Witness ==
  /\ Succeeded("final")
  /\ reply.content.obj.allPassed = "true"
  /\ \E i \in 1..Len(req.allRoundsData) : ~req.allRoundsData[i].roundPassed
  /\ ~resp.body.allPassed

\* C9: in a successful report roundsPassed is the number of submitted round
\* results with roundPassed, and overallScore is the mean of their
\* averageScore values, whatever the completion's object holds.
C9_ReportNumbersAreComputed ==
  (Succeeded("final") /\ req.allRoundsData # <<>>)
  => LET n == Len(req.allRoundsData)
         total == SumSeq([i \in 1..n |-> req.allRoundsData[i].averageScore.v])
         o == resp.body.overallScore
     IN  /\ resp.body.roundsPassed = Num(RoundsPassed(req.allRoundsData))
         /\ o.t = "dec"
         /\ 2 * (o.v * n - total) <= n
         /\ 2 * (total - o.v * n) <= n

(***************************** error reporting *****************************)
\* The completion came back and no object could be read from it.
ParseFailed ==
  /\ req.op \in {"analyze", "evaluate", "final"}
  /\ reply.outcome = "content"
  /\ ~JsonParses(JsonMatch(reply.content.text))

\* C10: the error that answers a completion with no readable object differs
\* from every error the same operation answers a failed gateway call with.
C10_ParseErrorDistinctFromGatewayError ==
  (pc = "sent" /\ ParseFailed)
  => \A o \in GatewayFailures :
       resp # Catch(version, req.op, CallGroq(version, o).message)

(***************************** /analyze-resume properties ******************)
\* C11: a successful analysis never carries a profile that lacks required
\* fields: when the object read from the completion is incomplete (the
\* empty object, say) the request ends in an error.
C11_IncompleteProfileRejected ==
  Succeeded("analyze") => resp.body.analysis.complete

\* C12: when the extraction of the uploaded document fails, or yields the
\* empty text, the request is answered with an error and no gateway call is
\* made for it.
C12_NoCallWithoutText ==
  (req.op = "analyze" /\ req.file.uploaded /\ pc # "pdf"
     /\ (~req.file.extractable \/ req.file.text = "empty"))
  => /\ groqCalls = 0
     /\ pc = "sent"
     /\ resp.status # 200

(***************************** object extraction properties ****************)
\* One object and nothing but prose around it.
Wrapped(text) ==
  \E i \in 1..(Len(text) - 1) :
    /\ text[i] = "{"
    /\ text[i + 1] = "}"
    /\ \A k \in (1..Len(text)) \ {i, i + 1} : text[k] = "w"

HasSpan(text) ==
  \E i, j \in 1..Len(text) : i < j /\ text[i] = "{" /\ text[j] = "}"

\* C13: reading the object out of a completion ends in one of two ways.  A
\* completion that wraps one object in prose is answered with a success that
\* carries exactly that object; a completion with no brace-delimited span,
\* or with a span that does not parse, is answered with an error.  No
\* success carries anything but the whole object of the completion.
C13_ObjectOrError ==
  (Answered("analyze") /\ reply.outcome = "content")
  => LET text == reply.content.text
     IN  /\ Wrapped(text)
              => resp = Ok([kind |-> "analysis", analysis |-> reply.content.obj])
         /\ (~HasSpan(text) \/ ~JsonParses(JsonMatch(text)))
              => (resp.status = 500 /\ resp.body = NoBody)
         /\ resp.status \in {200, 500}
         /\ resp.status = 200
              => /\ HasSpan(text)
                 /\ resp.body.analysis = reply.content.obj
                 /\ reply.content.obj \in AnalyzeObjects

C13_Witness ==
  /\ Succeeded("analyze")
  /\ reply.content.text = <<"w", "{", "}">>
  /\ resp.body.analysis = reply.content.obj

(***************************** /generate-questions properties **************)
\* The lines of the completion that pass the length filter.
Survivors(lines) ==
  {i \in 1..Len(lines) : StripLine(lines[i]).length > MinQuestionLength}

\* C14: the questions of a successful response are lines of the completion,
\* each stripped of the enumerator it starts with and of its surrounding
\* blanks, in the order of the completion; they are the first 5 of the lines
\* that pass the filter when more than 5 pass, and all of them otherwise; a
\* completion with fewer than 5 such lines, or none, is still answered with
\* a success.
C14_QuestionsAreFirstFiveInOrder ==
  (Answered("generate") /\ reply.outcome = "content")
  => LET lines == reply.content.lines
         qs == resp.body.questions
         passing == Survivors(lines)
     IN  /\ resp.status = 200
         /\ Len(qs) <= 5
         /\ Len(qs) = IF Cardinality(passing) > 5 THEN 5 ELSE Cardinality(passing)
         /\ \A k \in 1..Len(qs) :
              /\ qs[k].line \in passing
              /\ Cardinality({i \in passing : i < qs[k].line}) = k - 1
              /\ qs[k].length = StripLine(lines[qs[k].line]).length
              /\ qs[k].enumerator = (lines[qs[k].line].enumerated
                                       /\ lines[qs[k].line].indent > 0)
         /\ \A k, m \in 1..Len(qs) : k < m => qs[k].line < qs[m].line

C14_Witness ==
  /\ Succeeded("generate")
  /\ Cardinality(Survivors(reply.content.lines)) = 6
  /\ Len(resp.body.questions) = 5
  /\ resp.body.questions[5].line = 5

\* C15: a line of the completion is left out of the questions exactly when
\* its stripped text is shorter than 10 characters; a stripped text of
\* exactly 10 characters is a question.  (Completions of at most 5 lines, so
\* that nothing is left out by the limit.)
C15_DiscardedIffShorterThanTen ==
  (Succeeded("generate") /\ Len(reply.content.lines) <= QuestionLimit)
  => \A i \in 1..Len(reply.content.lines) :
       (\E k \in 1..Len(resp.body.questions) : resp.body.questions[k].line = i)
       <=> ~(StripLine(reply.content.lines[i]).length < MinQuestionLength)

(***************************** /evaluate-answer properties *****************)
\* What the response must hold for a strengths or weaknesses value the
\* completion's object holds.
AsList(emitted) ==
  CASE emitted = "list" -> "list"
    [] emitted = "string" -> "listOfTheString"
    [] OTHER -> "emptyList"

\* C16: in every successful evaluation strengths and weaknesses are lists,
\* whatever the completion's object holds for them: a list stays, a bare
\* string becomes the list of that string, and a missing value or a value of
\* another kind becomes the empty list.
C16_StrengthsAndWeaknessesAreLists ==
  Succeeded("evaluate")
  => /\ resp.body.strengths = AsList(reply.content.obj.strengths)
     /\ resp.body.weaknesses = AsList(reply.content.obj.weaknesses)

(***************************** responses and gateway calls *****************)
\* One response: a success payload, or an error message and nothing else.
OneAnswer(count, response) ==
  /\ count = 1
  /\ \/ response.status = 200 /\ response.error = "" /\ response.body # NoBody
     \/ response.status \in {400, 500} /\ response.error # "" /\ response.body = NoBody

\* C17: every request whose gateway call (and text extraction) settles is
\* answered, and with exactly one response, a success payload or one error
\* message: nothing is sent while the handler waits, one response has been
\* sent when it ends, and it does end.  This holds of a request whatever
\* became of the requests before it and of the request in flight beside it;
\* between requests the server holds nothing of the requests it has answered.
C17_AnsweredExactlyOnce ==
  /\ [](pc \in {"pdf", "groq"} => sends = 0)
  /\ [](pc = "sent" => OneAnswer(sends, resp))
  /\ [](other.pc = "groq" => other.sends = 0)
  /\ [](other.pc = "sent" => OneAnswer(other.sends, other.resp))
  /\ [](pc = "idle"
          => (sends = 0 /\ req = BaseReq /\ reply = NoReply /\ resp = NoResp
                /\ ENABLED GenerateQuestions /\ ENABLED EvaluateAnswer
                /\ ENABLED SubmitRoundBrief /\ ENABLED FinalReportBrief
                /\ ENABLED AnalyzeResume))
  /\ (pc \in {"pdf", "groq"}) ~> (pc = "sent")
  /\ (other.pc = "groq") ~> (other.pc = "sent")

\* A request answered with a success after an earlier request failed (its
\* upload is still on disk) and while the request beside it has failed.
C17_Witness ==
  /\ pc = "sent"
  /\ resp.status = 200
  /\ sends = 1
  /\ leaked > 0
  /\ other.pc = "sent"
  /\ other.resp.status = 500
  /\ other.sends = 1

\* C18: a request makes at most one gateway call on every path.  A failed
\* call (the fetch rejects, the status is not a success, the completion has
\* no choice) and a completion no object can be read from are answered with
\* an error after that one call, and a success is sent only once the one
\* call has come back with a completion.
C18_AtMostOneGatewayCall ==
  /\ groqCalls <= 1
  /\ other.groqCalls <= 1
  /\ pc = "groq" => (groqCalls = 1 /\ sends = 0 /\ reply = NoReply)
  /\ (pc = "sent" /\ reply.outcome \in GatewayFailures)
       => (groqCalls = 1 /\ resp.status = 500 /\ resp.body = NoBody)
  /\ (pc = "sent" /\ ParseFailed)
       => (groqCalls = 1 /\ resp.status = 500 /\ resp.body = NoBody)
  /\ (pc = "sent" /\ resp.status = 200)
       => (groqCalls = 1 /\ reply.outcome = "content")
  /\ (pc = "sent" /\ groqCalls = 0) => (reply = NoReply /\ resp.status # 200)
  /\ (other.pc = "sent" /\ other.resp.status = 200) => other.groqCalls = 1

C18_Witness ==
  /\ pc = "sent"
  /\ reply.outcome = "notOk"
  /\ groqCalls = 1
  /\ resp.status = 500

(***************************** round progression ***************************)
\* C19: a caller that starts at round 1 and moves on only on canProceed, to
\* the response's nextRound, is at rounds 1, 2, 3 in that order, none left
\* out and none twice; every nextRound it is given is a configured round,
\* the one after the round submitted; and a submission of round 3 is
\* answered with canProceed false and no nextRound, whatever the scores.
C19_RoundsInOrder ==
  /\ \A i \in 1..Len(client.visited) :
       HasRound(client.visited[i]) /\ client.visited[i].v = i
  /\ (Succeeded("submit") /\ resp.body.canProceed)
       => /\ HasRound(resp.body.nextRound)
          /\ resp.body.nextRound.v = req.roundNumber.v + 1
  /\ (Succeeded("submit") /\ req.roundNumber.v = 3)
       => (~resp.body.canProceed /\ resp.body.nextRound = JNull)

====
